---- MODULE Spec2Model ----
(***************************************************************************)
(* Model of the LPS_app server: the Season -> Round -> GameWeek hierarchy  *)
(* with its isActive flags (DatabaseStorage in src/server/types.ts), the   *)
(* routes that drive it and the pick routes                                *)
(* (registerRoutes in src/server/services/football-data.ts), over the      *)
(* tables declared in src/unnamed/part_001.                                *)
(*                                                                         *)
(* Tables are sequences: a row's serial id is its index, rows are never    *)
(* deleted.  The picks table, whose id no route reads, is a bag of rows.   *)
(* Columns that no modelled code path reads (names of seasons, dates,      *)
(* crests) are left out; a fixture's scores, kickoff, status and winner    *)
(* are one column, status.                                                 *)
(***************************************************************************)
EXTENDS Integers, Sequences, FiniteSets, Bags, TLC

\* ---- bounds of the model ------------------------------------------------
MaxSeasons == 2
MaxRounds == 2
MaxGameWeeks == 2
MaxNumber == 2
NumProcs == 2
NumUsers == 2
MaxPicks == 2
MaxFixtures == 3

VARIABLES
  seasons,    \* seasons table:    Seq([isActive])
  rounds,     \* rounds table:     Seq([seasonId, number, isActive])
  gameWeeks,  \* game_weeks table: Seq([roundId, number, isActive])
  teams,      \* teams table:      Seq([name])
  fixtures,   \* fixtures table:   Seq([external_id, game_week_id, round_id, season_id, home_team_id, away_team_id])
  picks,      \* picks table: bag of [userId, teamId, gameWeekId, roundId, seasonId, fixtureId, isHomeTeam, isCorrect]
              \* (the serial id, which no route reads, is left out)
  proc,       \* the requests in flight, each at its own await
  res         \* the response of the last finished request

vars == <<seasons, rounds, gameWeeks, teams, fixtures, picks, proc, res>>

SeasonIds == 1..MaxSeasons
RoundIds == 1..MaxRounds
GameWeekIds == 1..MaxGameWeeks
Numbers == 1..MaxNumber
Procs == 1..NumProcs
UserIds == 1..NumUsers

\* NULL of a nullable integer column, and "no row" of a select.
Null == 0

\* ---- responses ----------------------------------------------------------
NoCtx == [season |-> Null, round |-> Null, gameWeek |-> Null]

Res(op, err, arg, ctx, out) ==
  [op |-> op, err |-> err, arg |-> arg, ctx |-> ctx, out |-> out]

\* ---- the hierarchy tables as one value ----------------------------------
Hier == [seasons |-> seasons, rounds |-> rounds, gameWeeks |-> gameWeeks]

EmptyWrites == [seasons |-> [i \in {} |-> FALSE],
                rounds |-> [i \in {} |-> FALSE],
                gameWeeks |-> [i \in {} |-> FALSE]]

\* A transaction: the rows it has written and not yet committed (which it
\* also holds locked), and the locals of the transaction callback.
NewTx == [w |-> EmptyWrites, firstRound |-> Null, firstGameWeek |-> Null]

\* A table with pending isActive writes laid over it.
Over(tbl, o) ==
  [i \in DOMAIN tbl |->
     IF i \in DOMAIN o THEN [tbl[i] EXCEPT !.isActive = o[i]] ELSE tbl[i]]

\* What the statements of a transaction see: committed rows plus its own writes.
TxView(x) ==
  [seasons |-> Over(x.h.seasons, x.tx.w.seasons),
   rounds |-> Over(x.h.rounds, x.tx.w.rounds),
   gameWeeks |-> Over(x.h.gameWeeks, x.tx.w.gameWeeks)]

\* tx.update(tbl).set({isActive: val}) over the rows `rows' of table `tbl',
\* issued on the autocommitting pool connection instead of on tx.
DbUpdateAutocommit(x, tbl, rows, val) ==
  LET hit == rows \cap DOMAIN x.h[tbl]
  IN [x EXCEPT !.h[tbl] = [i \in DOMAIN @ |->
                             IF i \in hit THEN [@[i] EXCEPT !.isActive = val]
                             ELSE @[i]]]

\* tx.update(tbl).set({isActive: val}) over the rows `rows' of table `tbl':
\* the write stays inside the transaction until it commits.
TxUpdate(x, tbl, rows, val) ==
  LET hit == rows \cap DOMAIN x.h[tbl]
  IN [x EXCEPT !.tx.w[tbl] = [i \in (DOMAIN @) \cup hit |->
                                IF i \in hit THEN val ELSE @[i]]]

\* COMMIT at the end of db.transaction: every pending write becomes visible.
TxCommit(x) == [tx |-> NewTx, h |-> TxView(x)]

\* ROLLBACK when the callback of db.transaction throws: the pending writes
\* are dropped.
TxRollback(x) == [tx |-> NewTx, h |-> x.h]

\* select().from(rounds).where(seasonId = id).orderBy(number), first row.
FirstRoundHighest(rs, id) ==
  LET c == {r \in DOMAIN rs : rs[r].seasonId = id}
  IN IF c = {} THEN Null
     ELSE CHOOSE r \in c : \A q \in c : rs[q].number <= rs[r].number

FirstRound(rs, id) ==
  LET c == {r \in DOMAIN rs : rs[r].seasonId = id}
  IN IF c = {} THEN Null
     ELSE CHOOSE r \in c : \A q \in c : rs[r].number <= rs[q].number

\* The same select ordered by number descending.
FirstGameWeekHighest(gws, id) ==
  LET c == {g \in DOMAIN gws : gws[g].roundId = id}
  IN IF c = {} THEN Null
     ELSE CHOOSE g \in c : \A q \in c : gws[q].number <= gws[g].number

\* select().from(gameWeeks).where(roundId = id).orderBy(number), first row.
FirstGameWeek(gws, id) ==
  LET c == {g \in DOMAIN gws : gws[g].roundId = id}
  IN IF c = {} THEN Null
     ELSE CHOOSE g \in c : \A q \in c : gws[g].number <= gws[q].number

\* ---- the transaction bodies, one statement per step ---------------------
\* x = [tx, h]: the transaction and the committed hierarchy at this statement.
\* Statement 0 is "done".

\* setActiveSeason(id), the callback of db.transaction.
SeasonStmt(k, x, id) ==
  CASE k = 1 -> TxUpdate(x, "seasons", DOMAIN x.h.seasons, FALSE)
    [] k = 2 -> TxUpdate(x, "seasons", {id}, TRUE)
    [] k = 3 -> TxUpdate(x, "rounds", DOMAIN x.h.rounds, FALSE)
    [] k = 4 -> TxUpdate(x, "gameWeeks", DOMAIN x.h.gameWeeks, FALSE)
    [] k = 5 -> [x EXCEPT !.tx.firstRound = FirstRound(TxView(x).rounds, id)]
    [] k = 6 -> TxUpdate(x, "rounds", {x.tx.firstRound}, TRUE)
    [] k = 7 -> [x EXCEPT !.tx.firstGameWeek =
                   FirstGameWeek(TxView(x).gameWeeks, x.tx.firstRound)]
    [] k = 8 -> TxUpdate(x, "gameWeeks", {x.tx.firstGameWeek}, TRUE)
    [] k = 9 -> TxCommit(x)

\* The statement after statement k, given the state x that k left.
SeasonNext(k, x) ==
  CASE k = 5 -> IF x.tx.firstRound = Null THEN 9 ELSE 6
    [] k = 7 -> IF x.tx.firstGameWeek = Null THEN 9 ELSE 8
    [] k = 9 -> 0
    [] OTHER -> k + 1

\* setActiveRound keeping the round's game week that is already active, if
\* there is one, instead of taking the lowest-numbered.
RoundStmtKeepActive(k, x, id) ==
  CASE k = 1 -> TxUpdate(x, "rounds", DOMAIN x.h.rounds, FALSE)
    [] k = 2 -> TxUpdate(x, "rounds", {id}, TRUE)
    [] k = 3 -> TxUpdate(x, "gameWeeks", DOMAIN x.h.gameWeeks, FALSE)
    [] k = 4 -> [x EXCEPT !.tx.firstGameWeek =
                   IF \E g \in DOMAIN x.h.gameWeeks :
                        x.h.gameWeeks[g].roundId = id /\ x.h.gameWeeks[g].isActive
                   THEN CHOOSE g \in DOMAIN x.h.gameWeeks :
                          x.h.gameWeeks[g].roundId = id /\ x.h.gameWeeks[g].isActive
                   ELSE FirstGameWeek(TxView(x).gameWeeks, id)]
    [] k = 5 -> TxUpdate(x, "gameWeeks", {x.tx.firstGameWeek}, TRUE)
    [] k = 6 -> TxCommit(x)

\* setActiveRound(id), the callback of db.transaction.
RoundStmt(k, x, id) ==
  CASE k = 1 -> TxUpdate(x, "rounds", DOMAIN x.h.rounds, FALSE)
    [] k = 2 -> TxUpdate(x, "rounds", {id}, TRUE)
    [] k = 3 -> TxUpdate(x, "gameWeeks", DOMAIN x.h.gameWeeks, FALSE)
    [] k = 4 -> [x EXCEPT !.tx.firstGameWeek = FirstGameWeek(TxView(x).gameWeeks, id)]
    [] k = 5 -> TxUpdate(x, "gameWeeks", {x.tx.firstGameWeek}, TRUE)
    [] k = 6 -> TxCommit(x)

RoundNext(k, x) ==
  CASE k = 4 -> IF x.tx.firstGameWeek = Null THEN 6 ELSE 5
    [] k = 6 -> 0
    [] OTHER -> k + 1

\* setActiveGameWeek deactivating only the game weeks of id's own round.
GameWeekStmtOwnRound(k, x, id) ==
  CASE k = 1 -> TxUpdate(x, "gameWeeks",
                         {g \in DOMAIN x.h.gameWeeks :
                            x.h.gameWeeks[g].roundId = x.h.gameWeeks[id].roundId},
                         FALSE)
    [] k = 2 -> TxUpdate(x, "gameWeeks", {id}, TRUE)
    [] k = 3 -> TxCommit(x)

\* setActiveGameWeek flipping the flag of game week id.
GameWeekStmtToggle(k, x, id) ==
  CASE k = 1 -> TxUpdate(x, "gameWeeks", DOMAIN x.h.gameWeeks \ {id}, FALSE)
    [] k = 2 -> TxUpdate(x, "gameWeeks", {id}, ~x.h.gameWeeks[id].isActive)
    [] k = 3 -> TxCommit(x)

\* setActiveGameWeek(id), the callback of db.transaction.
GameWeekStmt(k, x, id) ==
  CASE k = 1 -> TxUpdate(x, "gameWeeks", DOMAIN x.h.gameWeeks, FALSE)
    [] k = 2 -> TxUpdate(x, "gameWeeks", {id}, TRUE)
    [] k = 3 -> TxCommit(x)

GameWeekNext(k, x) == IF k = 3 THEN 0 ELSE k + 1

Stmt(op, k, x, id) ==
  CASE op = "setActiveSeason" -> SeasonStmt(k, x, id)
    [] op = "setActiveRound" -> RoundStmt(k, x, id)
    [] op = "setActiveGameWeek" -> GameWeekStmt(k, x, id)

NextStmt(op, k, x) ==
  CASE op = "setActiveSeason" -> SeasonNext(k, x)
    [] op = "setActiveRound" -> RoundNext(k, x)
    [] op = "setActiveGameWeek" -> GameWeekNext(k, x)

\* The whole transaction run from statement k with nothing else running.
RECURSIVE RunTx(_, _, _, _)
RunTx(op, k, x, id) ==
  IF k = 0 THEN x
  ELSE LET y == Stmt(op, k, x, id) IN RunTx(op, NextStmt(op, k, y), y, id)

\* No existence check.
ExistsAlways(op, h, id) == TRUE

\* The existence check each setActive* makes before its transaction.
Exists(op, h, id) ==
  CASE op = "setActiveSeason" -> id \in DOMAIN h.seasons
    [] op = "setActiveRound" -> id \in DOMAIN h.rounds
    [] op = "setActiveGameWeek" -> id \in DOMAIN h.gameWeeks

Idle == [op |-> "idle", pc |-> 0, id |-> Null, tx |-> NewTx]

\* ---- initial state: the empty store -------------------------------------
Init ==
  /\ seasons = <<>>
  /\ rounds = <<>>
  /\ gameWeeks = <<>>
  /\ teams = <<>>
  /\ fixtures = <<>>
  /\ picks = EmptyBag
  /\ proc = <<>>
  /\ res = Res("init", "OK", <<>>, NoCtx, <<>>)

\* ---- POST /api/seasons, /api/rounds, /api/game-weeks ---------------------
\* The body's isActive is stored as given (the admin forms default it to true).
createSeason(isActive) ==
  /\ Len(seasons) < MaxSeasons
  /\ seasons' = Append(seasons, [isActive |-> isActive])
  /\ res' = Res("createSeason", "OK", <<Len(seasons) + 1>>, NoCtx, <<>>)
  /\ UNCHANGED <<rounds, gameWeeks, teams, fixtures, picks, proc>>

\* rounds has UNIQUE(season_id, number) and no foreign key to seasons.
createRound(seasonId, number, isActive) ==
  /\ Len(rounds) < MaxRounds
  /\ IF \E r \in DOMAIN rounds :
          rounds[r].seasonId = seasonId /\ rounds[r].number = number
     THEN /\ res' = Res("createRound", "StorageFailure", <<seasonId, number>>, NoCtx, <<>>)
          /\ UNCHANGED rounds
     ELSE /\ rounds' = Append(rounds, [seasonId |-> seasonId, number |-> number,
                                       isActive |-> isActive])
          /\ res' = Res("createRound", "OK", <<Len(rounds) + 1>>, NoCtx, <<>>)
  /\ UNCHANGED <<seasons, gameWeeks, teams, fixtures, picks, proc>>

\* game_weeks has UNIQUE(round_id, number) and no foreign key to rounds.  The
\* route then calls updateFixturesGameWeek(fixtureIds, id) with no round and
\* season: season_id = NULL breaks NOT NULL when a row matches, the update is
\* rolled back and the route answers 500, the game week staying inserted.
createGameWeek(roundId, number, isActive, fixtureIds) ==
  /\ Len(gameWeeks) < MaxGameWeeks
  /\ IF \E g \in DOMAIN gameWeeks :
          gameWeeks[g].roundId = roundId /\ gameWeeks[g].number = number
     THEN /\ res' = Res("createGameWeek", "StorageFailure", <<roundId, number>>, NoCtx, <<>>)
          /\ UNCHANGED gameWeeks
     ELSE /\ gameWeeks' = Append(gameWeeks, [roundId |-> roundId, number |-> number,
                                             isActive |-> isActive])
          /\ res' = Res("createGameWeek",
                        IF fixtureIds \cap DOMAIN fixtures = {} THEN "OK"
                        ELSE "StorageFailure",
                        <<Len(gameWeeks) + 1>>, NoCtx, <<>>)
  /\ UNCHANGED <<seasons, rounds, teams, fixtures, picks, proc>>

\* ---- POST /api/{seasons,rounds,game-weeks}/:id/activate, run alone -------
\* The existence check, then the whole transaction, with no other request
\* between its statements.
\* What a call leaves when it runs alone: its answer and the committed
\* hierarchy.
After(op, id) ==
  IF Exists(op, Hier, id)
  THEN [err |-> "OK", h |-> RunTx(op, 1, [tx |-> NewTx, h |-> Hier], id).h]
  ELSE [err |-> "NotFound", h |-> Hier]

Activate(op, id) ==
  /\ seasons' = After(op, id).h.seasons
  /\ rounds' = After(op, id).h.rounds
  /\ gameWeeks' = After(op, id).h.gameWeeks
  /\ res' = Res(op, After(op, id).err, <<id>>, NoCtx, <<>>)
  /\ UNCHANGED <<teams, fixtures, picks, proc>>

setActiveSeason(id) == Activate("setActiveSeason", id)
setActiveRound(id) == Activate("setActiveRound", id)
setActiveGameWeek(id) == Activate("setActiveGameWeek", id)

\* ---- the administration of the hierarchy, one request at a time ----------
Next ==
  \/ \E a \in BOOLEAN : createSeason(a)
  \/ \E s \in SeasonIds, n \in Numbers, a \in BOOLEAN : createRound(s, n, a)
  \/ \E r \in RoundIds, n \in Numbers, a \in BOOLEAN : createGameWeek(r, n, a, {})
  \/ \E s \in SeasonIds : setActiveSeason(s)
  \/ \E r \in RoundIds : setActiveRound(r)
  \/ \E g \in GameWeekIds : setActiveGameWeek(g)

Spec == Init /\ [][Next]_vars

\* ---- concurrent requests, one statement (one await) per step -------------
\* PostgreSQL at its default READ COMMITTED: a statement sees the rows committed
\* when it starts plus its transaction's own writes; an UPDATE locks the rows it
\* writes until COMMIT and waits while another transaction holds one of them.

\* A store reachable from the empty one by the create routes with isActive
\* false: two seasons, two rounds, two game weeks, no flag set yet.
ConcRounds ==
  { << [seasonId |-> 1, number |-> 2, isActive |-> FALSE],
       [seasonId |-> 1, number |-> 1, isActive |-> FALSE] >>,
    << [seasonId |-> 1, number |-> 1, isActive |-> FALSE],
       [seasonId |-> 2, number |-> 1, isActive |-> FALSE] >> }

ConcGameWeeks ==
  { << [roundId |-> 1, number |-> 2, isActive |-> FALSE],
       [roundId |-> 1, number |-> 1, isActive |-> FALSE] >>,
    << [roundId |-> 1, number |-> 1, isActive |-> FALSE],
       [roundId |-> 2, number |-> 1, isActive |-> FALSE] >> }

InitConc ==
  /\ seasons = <<[isActive |-> FALSE], [isActive |-> FALSE]>>
  /\ rounds \in ConcRounds
  /\ gameWeeks \in ConcGameWeeks
  /\ teams = <<>>
  /\ fixtures = <<>>
  /\ picks = EmptyBag
  /\ proc = [p \in Procs |-> Idle]
  /\ res = Res("init", "OK", <<>>, NoCtx, <<>>)

\* The rows a transaction holds locked: those it has written.
Locked(tx, tbl) == DOMAIN tx.w[tbl]

\* Statement y of request p may run: no row it writes is locked by another.
LocksFree(p, y) ==
  \A q \in Procs \ {p} : \A tbl \in {"seasons", "rounds", "gameWeeks"} :
    Locked(y.tx, tbl) \cap Locked(proc[q].tx, tbl) = {}

\* A setActive* request arrives and makes its existence check.
Begin(p, op, id) ==
  /\ proc[p].op = "idle"
  /\ IF Exists(op, Hier, id)
     THEN /\ proc' = [proc EXCEPT ![p] = [op |-> op, pc |-> 1, id |-> id, tx |-> NewTx]]
          /\ UNCHANGED res
     ELSE /\ res' = Res(op, "NotFound", <<id>>, NoCtx, <<>>)
          /\ UNCHANGED proc
  /\ UNCHANGED <<seasons, rounds, gameWeeks, teams, fixtures, picks>>

\* The next statement of request p's transaction; the last one is COMMIT,
\* after which the route answers 200.
Step(p) ==
  /\ proc[p].op \in {"setActiveSeason", "setActiveRound", "setActiveGameWeek"}
  /\ LET x == [tx |-> proc[p].tx, h |-> Hier]
         y == Stmt(proc[p].op, proc[p].pc, x, proc[p].id)
         k == NextStmt(proc[p].op, proc[p].pc, y)
     IN /\ LocksFree(p, y)
        /\ seasons' = y.h.seasons
        /\ rounds' = y.h.rounds
        /\ gameWeeks' = y.h.gameWeeks
        /\ IF k = 0
           THEN /\ proc' = [proc EXCEPT ![p] = Idle]
                /\ res' = Res(proc[p].op, "OK", <<proc[p].id>>, NoCtx, <<>>)
           ELSE /\ proc' = [proc EXCEPT ![p].pc = k, ![p].tx = y.tx]
                /\ UNCHANGED res
  /\ UNCHANGED <<teams, fixtures, picks>>

\* getAllSeasons, getAllRounds, getAllGameWeeks: one select each on the pool.
ReadFlags(tbl) == [i \in DOMAIN tbl |-> tbl[i].isActive]

getAll(tblName) ==
  /\ res' = Res("getAll", "OK", <<tblName>>, NoCtx, ReadFlags(Hier[tblName]))
  /\ UNCHANGED <<seasons, rounds, gameWeeks, teams, fixtures, picks, proc>>

NextConc ==
  \/ \E p \in Procs, s \in SeasonIds : Begin(p, "setActiveSeason", s)
  \/ \E p \in Procs, r \in RoundIds : Begin(p, "setActiveRound", r)
  \/ \E p \in Procs, g \in GameWeekIds : Begin(p, "setActiveGameWeek", g)
  \/ \E p \in Procs : Step(p)
  \/ \E t \in {"seasons", "rounds", "gameWeeks"} : getAll(t)

SpecConc == InitConc /\ [][NextConc]_vars

\* ---- an activation whose transaction fails --------------------------------
\* The transaction after its first n statements, run from statement k, and the
\* statement that would come next (0 when it has committed).
RECURSIVE RunPrefix(_, _, _, _, _)
RunPrefix(op, k, x, id, n) ==
  IF n = 0 \/ k = 0 THEN [x |-> x, k |-> k]
  ELSE LET y == Stmt(op, k, x, id)
       IN RunPrefix(op, NextStmt(op, k, y), y, id, n - 1)

\* setActive*(id) whose statement after the first n throws (the connection
\* drops, a statement times out): db.transaction rolls back and rethrows, and
\* the request fails.
failedActivation(op, id, n) ==
  /\ Exists(op, Hier, id)
  /\ LET pre == RunPrefix(op, 1, [tx |-> NewTx, h |-> Hier], id, n)
     IN /\ pre.k # 0
        /\ seasons' = TxRollback(pre.x).h.seasons
        /\ rounds' = TxRollback(pre.x).h.rounds
        /\ gameWeeks' = TxRollback(pre.x).h.gameWeeks
  /\ res' = Res(op, "StorageFailure", <<id>>, NoCtx, <<>>)
  /\ UNCHANGED <<teams, fixtures, picks, proc>>

NextFail ==
  \/ \E s \in SeasonIds : setActiveSeason(s)
  \/ \E r \in RoundIds : setActiveRound(r)
  \/ \E g \in GameWeekIds : setActiveGameWeek(g)
  \/ \E op \in {"setActiveSeason", "setActiveRound", "setActiveGameWeek"},
        id \in SeasonIds \cup RoundIds \cup GameWeekIds, n \in 0..8 :
       failedActivation(op, id, n)

SpecFail == InitConc /\ [][NextFail]_vars

\* ---- gameplay: context, picks, available teams ---------------------------

\* getActiveSeason(): results[0] of a select with no ORDER BY; with several
\* active rows any of them may come first.  {Null} when there is none.
getActiveSeason(h) ==
  LET c == {s \in DOMAIN h.seasons : h.seasons[s].isActive}
  IN IF c = {} THEN {Null} ELSE c

\* An active round of whatever season.
getAnyActiveRound(h, seasonId) ==
  LET c == {r \in DOMAIN h.rounds : h.rounds[r].isActive}
  IN IF c = {} THEN {Null} ELSE c

\* getActiveRound(seasonId).
getActiveRound(h, seasonId) ==
  LET c == {r \in DOMAIN h.rounds :
              h.rounds[r].seasonId = seasonId /\ h.rounds[r].isActive}
  IN IF c = {} THEN {Null} ELSE c

\* An active game week of whatever round.
getAnyActiveGameWeek(h, roundId) ==
  LET c == {g \in DOMAIN h.gameWeeks : h.gameWeeks[g].isActive}
  IN IF c = {} THEN {Null} ELSE c

\* getActiveGameWeek(roundId).
getActiveGameWeek(h, roundId) ==
  LET c == {g \in DOMAIN h.gameWeeks :
              h.gameWeeks[g].roundId = roundId /\ h.gameWeeks[g].isActive}
  IN IF c = {} THEN {Null} ELSE c

\* The three lookups that open GET /api/current, POST /api/picks and
\* GET /api/available-teams: every outcome they can have on hierarchy h.
Ctx(err, s, r, g) == [err |-> err, season |-> s, round |-> r, gameWeek |-> g]

ResolveContext(h) ==
  UNION { IF s = Null THEN {Ctx("NoActiveSeason", Null, Null, Null)}
          ELSE UNION { IF r = Null THEN {Ctx("NoActiveRound", s, Null, Null)}
                       ELSE { IF g = Null THEN Ctx("NoActiveGameWeek", s, r, Null)
                              ELSE Ctx("OK", s, r, g)
                              : g \in getActiveGameWeek(h, r) }
                       : r \in getActiveRound(h, s) }
          : s \in getActiveSeason(h) }

CtxOf(c) == [season |-> c.season, round |-> c.round, gameWeek |-> c.gameWeek]

\* GET /api/current.
getCurrentContext ==
  /\ \E c \in ResolveContext(Hier) :
       res' = Res("getCurrentContext", c.err, <<>>, CtxOf(c), <<>>)
  /\ UNCHANGED <<seasons, rounds, gameWeeks, teams, fixtures, picks, proc>>

\* The administration of the hierarchy from the empty store, with
\* GET /api/current asked between the admin's requests: here several rows of
\* a level can be active at once, and rounds and game weeks can be active
\* under a parent that is not.
NextCurrent ==
  \/ \E a \in BOOLEAN : createSeason(a)
  \/ \E s \in SeasonIds, n \in Numbers, a \in BOOLEAN : createRound(s, n, a)
  \/ \E r \in RoundIds, n \in Numbers, a \in BOOLEAN : createGameWeek(r, n, a, {})
  \/ \E s \in SeasonIds : setActiveSeason(s)
  \/ \E r \in RoundIds : setActiveRound(r)
  \/ \E g \in GameWeekIds : setActiveGameWeek(g)
  \/ getCurrentContext

SpecCurrent == Init /\ [][NextCurrent]_vars

\* ---- GET /api/current among committed activations --------------------------
\* The route makes its three lookups in three awaits, outside any transaction;
\* between two of them other requests run.  An activation is taken here as one
\* step, its commit.  A request in flight carries what it has read so far
\* (ctx) and, as a record of history only, the triples that were active
\* together in some committed state since its first read (seen).
ActiveTriples(h) ==
  { [season |-> s, round |-> r, gameWeek |-> g] :
      s \in {i \in DOMAIN h.seasons : h.seasons[i].isActive},
      r \in {i \in DOMAIN h.rounds : h.rounds[i].isActive},
      g \in {i \in DOMAIN h.gameWeeks : h.gameWeeks[i].isActive} }

\* const season = await storage.getActiveSeason().
readSeason(p) ==
  /\ proc[p].op = "idle"
  /\ \E s \in getActiveSeason(Hier) :
       IF s = Null
       THEN /\ res' = Res("getCurrentContext", "NoActiveSeason", <<p>>, NoCtx, {})
            /\ UNCHANGED proc
       ELSE /\ proc' = [proc EXCEPT ![p] =
                          [op |-> "getCurrentContext", pc |-> 2,
                           ctx |-> [season |-> s, round |-> Null, gameWeek |-> Null],
                           seen |-> ActiveTriples(Hier)]]
            /\ UNCHANGED res
  /\ UNCHANGED <<seasons, rounds, gameWeeks, teams, fixtures, picks>>

\* const round = await storage.getActiveRound(season.id).
readRound(p) ==
  /\ proc[p].op = "getCurrentContext" /\ proc[p].pc = 2
  /\ \E r \in getActiveRound(Hier, proc[p].ctx.season) :
       IF r = Null
       THEN /\ res' = Res("getCurrentContext", "NoActiveRound", <<p>>,
                          proc[p].ctx, proc[p].seen)
            /\ proc' = [proc EXCEPT ![p] = Idle]
       ELSE /\ proc' = [proc EXCEPT ![p].pc = 3, ![p].ctx.round = r]
            /\ UNCHANGED res
  /\ UNCHANGED <<seasons, rounds, gameWeeks, teams, fixtures, picks>>

\* const gameWeek = await storage.getActiveGameWeek(round.id),
\* and the response.
readGameWeek(p) ==
  /\ proc[p].op = "getCurrentContext" /\ proc[p].pc = 3
  /\ \E g \in getActiveGameWeek(Hier, proc[p].ctx.round) :
       res' = Res("getCurrentContext",
                  IF g = Null THEN "NoActiveGameWeek" ELSE "OK", <<p>>,
                  [proc[p].ctx EXCEPT !.gameWeek = g], proc[p].seen)
  /\ proc' = [proc EXCEPT ![p] = Idle]
  /\ UNCHANGED <<seasons, rounds, gameWeeks, teams, fixtures, picks>>

\* An activation committing while requests are in flight.
activateDuring(op, id) ==
  /\ seasons' = After(op, id).h.seasons
  /\ rounds' = After(op, id).h.rounds
  /\ gameWeeks' = After(op, id).h.gameWeeks
  /\ res' = Res(op, After(op, id).err, <<id>>, NoCtx, <<>>)
  /\ proc' = [p \in DOMAIN proc |->
                IF proc[p].op = "getCurrentContext"
                THEN [proc[p] EXCEPT !.seen = @ \cup ActiveTriples(After(op, id).h)]
                ELSE proc[p]]
  /\ UNCHANGED <<teams, fixtures, picks>>

\* One GET /api/current is followed; the requests it races with are the
\* activations.
Readers == {1}

NextSnap ==
  \/ \E s \in SeasonIds : activateDuring("setActiveSeason", s)
  \/ \E r \in RoundIds : activateDuring("setActiveRound", r)
  \/ \E g \in GameWeekIds : activateDuring("setActiveGameWeek", g)
  \/ \E p \in Readers : readSeason(p)
  \/ \E p \in Readers : readRound(p)
  \/ \E p \in Readers : readGameWeek(p)

SpecSnap == InitConc /\ [][NextSnap]_vars

\* picks: UNIQUE(user_id, team_id), a misdeclared constraint.
ViolatesUniqueUserTeam(ps, pick) ==
  \E q \in BagToSet(ps) : q.userId = pick.userId /\ q.teamId = pick.teamId

\* That constraint together with a test of the round's earlier picks.
ViolatesUniqueOrRoundHistory(ps, pick) ==
  \E q \in BagToSet(ps) :
    /\ q.userId = pick.userId
    /\ \/ q.gameWeekId = pick.gameWeekId
       \/ q.teamId = pick.teamId /\ q.roundId = pick.roundId

\* picks: UNIQUE(user_id, game_week_id), checked by the store on insert.
ViolatesUnique(ps, pick) ==
  \E q \in BagToSet(ps) : q.userId = pick.userId /\ q.gameWeekId = pick.gameWeekId

\* POST /api/picks, after the context: getFixtureById, then the test that the
\* team is the fixture's home or away team.
CheckFixture(teamId, fixtureId) ==
  IF fixtureId \notin DOMAIN fixtures THEN "NotFound"
  ELSE IF fixtures[fixtureId].home_team_id # teamId
          /\ fixtures[fixtureId].away_team_id # teamId
       THEN "TeamNotInCurrentFixtures"
  ELSE "OK"

\* pickData with isHomeTeam always set.
PickDataAlwaysHome(u, teamId, fixtureId, c) ==
  [userId |-> u, teamId |-> teamId,
   gameWeekId |-> c.gameWeek, roundId |-> c.round, seasonId |-> c.season,
   fixtureId |-> fixtureId, isHomeTeam |-> TRUE, isCorrect |-> "null"]

\* pickData with the ids of the fixture's own assignment.
PickDataFromFixture(u, teamId, fixtureId, c) ==
  [userId |-> u, teamId |-> teamId,
   gameWeekId |-> fixtures[fixtureId].game_week_id,
   roundId |-> fixtures[fixtureId].round_id,
   seasonId |-> fixtures[fixtureId].season_id,
   fixtureId |-> fixtureId,
   isHomeTeam |-> fixtures[fixtureId].home_team_id = teamId,
   isCorrect |-> "null"]

\* POST /api/picks: pickData, its ids taken from the resolved context.
PickData(u, teamId, fixtureId, c) ==
  [userId |-> u, teamId |-> teamId,
   gameWeekId |-> c.gameWeek, roundId |-> c.round, seasonId |-> c.season,
   fixtureId |-> fixtureId,
   isHomeTeam |-> fixtures[fixtureId].home_team_id = teamId,
   isCorrect |-> "null"]

\* How POST /api/picks answers once its context c is resolved: the context's
\* error, the fixture's, DuplicatePick when the insert is rejected, else OK.
PickOutcome(u, teamId, fixtureId, c) ==
  IF c.err # "OK" THEN c.err
  ELSE IF CheckFixture(teamId, fixtureId) # "OK"
       THEN CheckFixture(teamId, fixtureId)
  ELSE IF ViolatesUnique(picks, PickData(u, teamId, fixtureId, c))
       THEN "DuplicatePick"
  ELSE "OK"

\* A route that on a second submission replaces the user's stored pick.
submitPickReplacing(u, teamId, fixtureId) ==
  /\ \E c \in ResolveContext(Hier) :
       LET arg == <<u, teamId, fixtureId>>
           fail(err) == /\ res' = Res("submitPick", err, arg, CtxOf(c), <<>>)
                        /\ UNCHANGED picks
           pick == PickData(u, teamId, fixtureId, c)
       IN IF c.err # "OK" THEN fail(c.err)
          ELSE IF CheckFixture(teamId, fixtureId) # "OK"
               THEN fail(CheckFixture(teamId, fixtureId))
          ELSE /\ BagCardinality(picks) < MaxPicks
               /\ picks' = SetToBag({q \in BagToSet(picks) :
                                       ~(q.userId = u /\ q.gameWeekId = c.gameWeek)}
                                    \cup {pick})
               /\ res' = Res("submitPick", "OK", arg, CtxOf(c), <<>>)
  /\ UNCHANGED <<seasons, rounds, gameWeeks, teams, fixtures, proc>>

\* POST /api/picks with req.user.id = u and body {teamId, fixtureId} (both
\* given: the route answers 400 before anything else when one is missing),
\* run alone.  A rejected insert is caught and answered with 500.
submitPick(u, teamId, fixtureId) ==
  /\ \E c \in ResolveContext(Hier) :
       LET arg == <<u, teamId, fixtureId>>
           fail(err) == /\ res' = Res("submitPick", err, arg, CtxOf(c), <<>>)
                        /\ UNCHANGED picks
       IN IF PickOutcome(u, teamId, fixtureId, c) # "OK"
          THEN fail(PickOutcome(u, teamId, fixtureId, c))
          ELSE /\ BagCardinality(picks) < MaxPicks
               /\ picks' = picks (+) SetToBag({PickData(u, teamId, fixtureId, c)})
               /\ res' = Res("submitPick", "OK", arg, CtxOf(c), <<>>)
  /\ UNCHANGED <<seasons, rounds, gameWeeks, teams, fixtures, proc>>

\* POST /api/fixtures/assign: updateFixturesGameWeek(fixtureIds, gameWeekId,
\* roundId, seasonId).
updateFixturesGameWeek(fixtureIds, gameWeekId, roundId, seasonId) ==
  /\ fixtures' = [f \in DOMAIN fixtures |->
                    IF f \in fixtureIds
                    THEN [fixtures[f] EXCEPT !.game_week_id = gameWeekId,
                                             !.round_id = roundId,
                                             !.season_id = seasonId]
                    ELSE fixtures[f]]
  /\ res' = Res("assignFixtures", "OK", <<gameWeekId>>, NoCtx, <<>>)
  /\ UNCHANGED <<seasons, rounds, gameWeeks, teams, picks, proc>>

\* What the admin page posts: a game week, the round it was listed under and
\* that round's season (manage-fixtures.tsx filters each list by its parent).
assignFixtures(fixtureIds, gameWeekId) ==
  /\ gameWeekId \in DOMAIN gameWeeks
  /\ gameWeeks[gameWeekId].roundId \in DOMAIN rounds
  /\ updateFixturesGameWeek(fixtureIds, gameWeekId, gameWeeks[gameWeekId].roundId,
                            rounds[gameWeeks[gameWeekId].roundId].seasonId)

\* The sync route's createTeam(...).catch(...): the insert, or when teams.name
\* UNIQUE rejects it the row of that name found in getTeams().  updateTeam then
\* rewrites short_name, tla and crest, which nothing here reads.
createOrFindTeam(tms, name) ==
  IF \E t \in DOMAIN tms : tms[t].name = name
  THEN [teams |-> tms, id |-> CHOOSE t \in DOMAIN tms : tms[t].name = name]
  ELSE [teams |-> Append(tms, [name |-> name]), id |-> Len(tms) + 1]

\* An upsert whose update writes every column of the payload.
createOrUpdateFixtureAllColumns(fx, fixture) ==
  IF \E f \in DOMAIN fx : fx[f].external_id = fixture.external_id
  THEN [f \in DOMAIN fx |->
          IF fx[f].external_id = fixture.external_id THEN fixture ELSE fx[f]]
  ELSE Append(fx, fixture)

\* createOrUpdateFixture(fixture) on the fixtures table fx: a row with the
\* payload's external_id is updated in the columns the update sets (status
\* stands for home_score, away_score, kickoff, status and winner), otherwise
\* the payload is inserted as a new row.
createOrUpdateFixture(fx, fixture) ==
  IF \E f \in DOMAIN fx : fx[f].external_id = fixture.external_id
  THEN [f \in DOMAIN fx |->
          IF fx[f].external_id = fixture.external_id
          THEN [fx[f] EXCEPT !.home_team_id = fixture.home_team_id,
                             !.away_team_id = fixture.away_team_id,
                             !.status = fixture.status,
                             !.selected = fixture.selected,
                             !.external_season_id = fixture.external_season_id]
          ELSE fx[f]]
  ELSE Append(fx, fixture)

\* The payload POST /api/fixtures/sync builds for one fixture of the feed.
SyncPayload(item, homeTeamId, awayTeamId, activeSeasonId) ==
  [external_id |-> item.id, home_team_id |-> homeTeamId,
   away_team_id |-> awayTeamId, status |-> item.status,
   external_season_id |-> item.season, season_id |-> activeSeasonId,
   round_id |-> Null, selected |-> FALSE, game_week_id |-> Null]

\* The loop of POST /api/fixtures/sync over the fetched fixtures, on the
\* tables st = [teams, fixtures].
RECURSIVE syncEach(_, _, _)
syncEach(st, feed, activeSeasonId) ==
  IF feed = <<>> THEN st
  ELSE LET item == Head(feed)
           homeTeam == createOrFindTeam(st.teams, item.homeTeam)
           awayTeam == createOrFindTeam(homeTeam.teams, item.awayTeam)
       IN syncEach([teams |-> awayTeam.teams,
                    fixtures |-> createOrUpdateFixture(st.fixtures,
                                   SyncPayload(item, homeTeam.id, awayTeam.id,
                                               activeSeasonId))],
                   Tail(feed), activeSeasonId)

\* POST /api/fixtures/sync with fetchFixtures returning feed, run alone:
\* without an active season it throws before the loop and answers 500.
syncFixtures(feed) ==
  /\ \E s \in getActiveSeason(Hier) :
       IF s = Null
       THEN /\ res' = Res("syncFixtures", "NoActiveSeason", <<feed>>, NoCtx, <<>>)
            /\ UNCHANGED <<teams, fixtures>>
       ELSE LET st == syncEach([teams |-> teams, fixtures |-> fixtures], feed, s)
            IN /\ Len(st.fixtures) <= MaxFixtures
               /\ teams' = st.teams
               /\ fixtures' = st.fixtures
               /\ res' = Res("syncFixtures", "OK", <<feed>>, NoCtx, <<>>)
  /\ UNCHANGED <<seasons, rounds, gameWeeks, picks, proc>>

\* fixtures.external_id is UNIQUE (NULLs do not collide).
ViolatesUniqueExternalId(fx, fixture) ==
  /\ fixture.external_id # Null
  /\ \E f \in DOMAIN fx : fx[f].external_id = fixture.external_id

\* POST /api/fixtures with a body that parses: createFixture, a plain insert.
createFixture(fixture) ==
  /\ IF ViolatesUniqueExternalId(fixtures, fixture)
     THEN /\ res' = Res("createFixture", "StorageFailure", <<fixture>>, NoCtx, <<>>)
          /\ UNCHANGED fixtures
     ELSE /\ Len(fixtures) < MaxFixtures
          /\ fixtures' = Append(fixtures, fixture)
          /\ res' = Res("createFixture", "OK", <<fixture>>, NoCtx, <<>>)
  /\ UNCHANGED <<seasons, rounds, gameWeeks, teams, picks, proc>>

\* getFixturesByGameWeek(gameWeekId).
getFixturesByGameWeek(gameWeekId) ==
  {f \in DOMAIN fixtures : fixtures[f].game_week_id = gameWeekId}

\* Only the game weeks of the round that are active now.
getActiveGameWeeksByRound(roundId) ==
  {g \in DOMAIN gameWeeks : gameWeeks[g].roundId = roundId /\ gameWeeks[g].isActive}

\* getGameWeeksByRound(roundId).
getGameWeeksByRound(roundId) ==
  {g \in DOMAIN gameWeeks : gameWeeks[g].roundId = roundId}

\* getPicksByUser(userId).
getPicksByUser(userId) == {q \in BagToSet(picks) : q.userId = userId}

\* The picks of every user in the given game weeks.
getPicksOfAllUsers(userId, gameWeekIds) ==
  {q \in BagToSet(picks) : q.gameWeekId \in gameWeekIds}

\* Every pick of the user, whatever its game week.
getPicksOfAnyGameWeek(userId, gameWeekIds) ==
  {q \in BagToSet(picks) : q.userId = userId}

\* getPicksByGameWeeks(userId, gameWeekIds).
getPicksByGameWeeks(userId, gameWeekIds) ==
  {q \in BagToSet(picks) : q.userId = userId /\ q.gameWeekId \in gameWeekIds}

\* getTeams(): a select with no ORDER BY, the rows in any order.
getTeams ==
  {o \in [DOMAIN teams -> DOMAIN teams] : \A i, j \in DOMAIN teams : i # j => o[i] # o[j]}

\* The body of GET /api/available-teams after the context is resolved.
availableTeams(u, c, order) ==
  LET gwFixtures == getFixturesByGameWeek(c.gameWeek)
      teamIds == {fixtures[f].home_team_id : f \in gwFixtures}
                   \cup {fixtures[f].away_team_id : f \in gwFixtures}
      roundGameWeekIds == getGameWeeksByRound(c.round)
      previousPicks == getPicksByGameWeeks(u, roundGameWeekIds)
      previouslyPickedTeamIds == {q.teamId : q \in previousPicks}
      kept == SelectSeq(order, LAMBDA t : t \in teamIds)
  IN [i \in DOMAIN kept |->
        [id |-> kept[i], name |-> teams[kept[i]].name,
         isAvailable |-> kept[i] \notin previouslyPickedTeamIds]]

\* String.localeCompare on two names, a name being its rank in collation order.
localeCompare(x, y) == IF x < y THEN -1 ELSE IF x > y THEN 1 ELSE 0

\* A comparator that looks at the name alone.
compareByName(a, b) == localeCompare(a.name, b.name)

\* The comparator of the player dashboard's sortedTeams.
compare(a, b) ==
  IF a.isAvailable /\ ~b.isAvailable THEN -1
  ELSE IF ~a.isAvailable /\ b.isAvailable THEN 1
  ELSE localeCompare(a.name, b.name)

\* Array.prototype.sort with that comparator: a stable sort, here by insertion.
RECURSIVE Insert(_, _)
Insert(x, sorted) ==
  IF sorted = <<>> THEN <<x>>
  ELSE IF compare(x, Head(sorted)) < 0 THEN <<x>> \o sorted
  ELSE <<Head(sorted)>> \o Insert(x, Tail(sorted))

RECURSIVE sortedTeams(_)
sortedTeams(list) ==
  IF list = <<>> THEN <<>>
  ELSE Insert(list[Len(list)], sortedTeams(SubSeq(list, 1, Len(list) - 1)))

\* GET /api/available-teams for req.user.id = u, as the player dashboard
\* lists it: the response of the route put through sortedTeams.
getAvailableTeams(u) ==
  /\ \E c \in ResolveContext(Hier), order \in getTeams :
       res' = Res("getAvailableTeams", c.err, <<u>>, CtxOf(c),
                  IF c.err = "OK" THEN sortedTeams(availableTeams(u, c, order))
                  ELSE <<>>)
  /\ UNCHANGED <<seasons, rounds, gameWeeks, teams, fixtures, picks, proc>>

\* A store the admin routes reach: season 1 with round 1, season 2 with
\* round 2, two game weeks either both of round 1 or one of each round, no
\* flag set yet; three teams whose table order is not their name order; and
\* two synced fixtures, team 1 at home to team 2 assigned to game week 1 and
\* team 3 at home to team 1 not yet assigned.
PlayRounds ==
  << [seasonId |-> 1, number |-> 1, isActive |-> FALSE],
     [seasonId |-> 2, number |-> 1, isActive |-> FALSE] >>

PlayTeams == <<[name |-> 2], [name |-> 1], [name |-> 3]>>

PlayFixtures ==
  << [external_id |-> 11, game_week_id |-> 1, round_id |-> 1, season_id |-> 1,
      home_team_id |-> 1, away_team_id |-> 2, status |-> "SCHEDULED",
      selected |-> FALSE, external_season_id |-> 2024],
     [external_id |-> 12, game_week_id |-> Null, round_id |-> Null, season_id |-> 1,
      home_team_id |-> 3, away_team_id |-> 1, status |-> "SCHEDULED",
      selected |-> FALSE, external_season_id |-> 2024] >>

InitPlay ==
  /\ seasons = <<[isActive |-> FALSE], [isActive |-> FALSE]>>
  /\ rounds = PlayRounds
  /\ gameWeeks \in ConcGameWeeks
  /\ teams = PlayTeams
  /\ fixtures = PlayFixtures
  /\ picks = EmptyBag
  /\ proc = <<>>
  /\ res = Res("init", "OK", <<>>, NoCtx, <<>>)

\* The bodies {teamId, fixtureId} posted to /api/picks: team 1 as the home
\* team of fixture 1 and as the away team of fixture 2, the home team of
\* fixture 2, a team that does not play in the fixture named, and a fixture
\* that does not exist.
PickRequests == {<<1, 1>>, <<1, 2>>, <<3, 2>>, <<3, 1>>, <<1, 3>>}

\* What the feed returns while nothing has been played: both fixtures, with
\* the team names, status and season the store already has.
PlayFeed ==
  << [id |-> 11, homeTeam |-> 2, awayTeam |-> 1, status |-> "SCHEDULED",
      season |-> 2024],
     [id |-> 12, homeTeam |-> 3, awayTeam |-> 2, status |-> "SCHEDULED",
      season |-> 2024] >>

NextPlay ==
  \/ \E s \in SeasonIds : setActiveSeason(s)
  \/ \E r \in RoundIds : setActiveRound(r)
  \/ \E g \in GameWeekIds : setActiveGameWeek(g)
  \/ \E g \in GameWeekIds : assignFixtures({2}, g)
  \/ syncFixtures(PlayFeed)
  \/ getCurrentContext
  \/ \E u \in UserIds : getAvailableTeams(u)
  \/ \E u \in UserIds, b \in PickRequests : submitPick(u, b[1], b[2])

SpecPlay == InitPlay /\ [][NextPlay]_vars

\* ---- fixture sync ---------------------------------------------------------
\* The admin's fixture routes run one request at a time on the same store:
\* re-syncs of fixture 11 after it was played (with the sides as stored, or
\* swapped by the feed), a feed with a fixture and a team the store does not
\* have, and a feed of two fixtures without a season.
SyncFeeds ==
  { << [id |-> 11, homeTeam |-> 2, awayTeam |-> 1, status |-> "FINISHED",
        season |-> 2024] >>,
    << [id |-> 11, homeTeam |-> 1, awayTeam |-> 2, status |-> "SCHEDULED",
        season |-> 2024] >>,
    << [id |-> 13, homeTeam |-> 3, awayTeam |-> 4, status |-> "SCHEDULED",
        season |-> 2024] >>,
    << [id |-> 11, homeTeam |-> 2, awayTeam |-> 1, status |-> "SCHEDULED",
        season |-> Null],
       [id |-> 12, homeTeam |-> 3, awayTeam |-> 2, status |-> "FINISHED",
        season |-> Null] >> }

\* The bodies posted to /api/fixtures: a hand-made fixture marked selected,
\* with the external id of a fixture the feed has yet to deliver or with one
\* the store already has.
ManualFixtures ==
  { [external_id |-> e, game_week_id |-> 2, round_id |-> gameWeeks[2].roundId,
     season_id |-> rounds[gameWeeks[2].roundId].seasonId,
     home_team_id |-> 2, away_team_id |-> 3, status |-> "SCHEDULED",
     selected |-> TRUE, external_season_id |-> Null] : e \in {13, 11} }

NextSync ==
  \/ \E s \in SeasonIds : setActiveSeason(s)
  \/ \E f \in DOMAIN fixtures, g \in GameWeekIds : assignFixtures({f}, g)
  \/ \E feed \in SyncFeeds : syncFixtures(feed)
  \/ \E fixture \in ManualFixtures : createFixture(fixture)

SpecSync == InitPlay /\ [][NextSync]_vars

\* ---- concurrent POST /api/picks ------------------------------------------
\* Each request reads (context, fixture) and later inserts; the insert is one
\* autocommitted statement.  Of what a request reads, only the game weeks'
\* flags change in these runs, so its reads are taken in one step, at the
\* read of the active game week, and the insert in a second.
PicksGameWeeks ==
  << [roundId |-> 1, number |-> 2, isActive |-> TRUE],
     [roundId |-> 1, number |-> 1, isActive |-> FALSE] >>

InitPicks ==
  /\ seasons = <<[isActive |-> TRUE], [isActive |-> FALSE]>>
  /\ rounds = [PlayRounds EXCEPT ![1].isActive = TRUE]
  /\ gameWeeks = PicksGameWeeks
  /\ teams = PlayTeams
  /\ fixtures = [PlayFixtures EXCEPT ![2].game_week_id = 2, ![2].round_id = 1]
  /\ picks = EmptyBag
  /\ proc = [p \in Procs |-> Idle]
  /\ res = Res("init", "OK", <<>>, NoCtx, <<>>)

\* Request p arrives and makes its reads.
BeginPick(p, u, teamId, fixtureId) ==
  /\ proc[p].op = "idle"
  /\ \E c \in ResolveContext(Hier) :
       LET err == IF c.err # "OK" THEN c.err ELSE CheckFixture(teamId, fixtureId)
       IN IF err # "OK"
          THEN /\ res' = Res("submitPick", err, <<u, teamId, fixtureId>>, CtxOf(c), <<>>)
               /\ UNCHANGED proc
          ELSE /\ proc' = [proc EXCEPT ![p] =
                             [op |-> "submitPick", pc |-> 1,
                              id |-> <<u, teamId, fixtureId>>, ctx |-> CtxOf(c)]]
               /\ UNCHANGED res
  /\ UNCHANGED <<seasons, rounds, gameWeeks, teams, fixtures, picks>>

\* Request p's storage.createPick(pickData) and its answer.
InsertPick(p) ==
  /\ proc[p].op = "submitPick"
  /\ LET a == proc[p].id
         pickData == PickData(a[1], a[2], a[3], proc[p].ctx)
     IN IF ViolatesUnique(picks, pickData)
        THEN /\ res' = Res("submitPick", "DuplicatePick", a, proc[p].ctx, <<>>)
             /\ UNCHANGED picks
        ELSE /\ BagCardinality(picks) < MaxPicks
             /\ picks' = picks (+) SetToBag({pickData})
             /\ res' = Res("submitPick", "OK", a, proc[p].ctx, <<>>)
  /\ proc' = [proc EXCEPT ![p] = Idle]
  /\ UNCHANGED <<seasons, rounds, gameWeeks, teams, fixtures>>

\* An activation commits between the steps of the pick requests.
ActivateGameWeek(g) ==
  /\ setActiveGameWeek(g)
  /\ res'.err = "OK"

NextPicks ==
  \/ \E p \in Procs, u \in UserIds, b \in PickRequests : BeginPick(p, u, b[1], b[2])
  \/ \E p \in Procs : InsertPick(p)
  \/ \E g \in GameWeekIds : ActivateGameWeek(g)

SpecPicks == InitPicks /\ [][NextPicks]_vars

\* ---- active entities ----------------------------------------------------
ActiveSeasons == {s \in DOMAIN seasons : seasons[s].isActive}
ActiveRounds == {r \in DOMAIN rounds : rounds[r].isActive}
ActiveGameWeeks == {g \in DOMAIN gameWeeks : gameWeeks[g].isActive}

\* C1: in every reachable state at most one Season, at most one Round and at
\* most one GameWeek has isActive = true.
C1_AtMostOneActivePerLevel ==
  /\ Cardinality(ActiveSeasons) <= 1
  /\ Cardinality(ActiveRounds) <= 1
  /\ Cardinality(ActiveGameWeeks) <= 1

\* C2: right after setActiveSeason(S) succeeds, S is the only active season,
\* the active rounds are exactly the lowest-numbered round of S (none when S
\* has no round) and the active game weeks are exactly the lowest-numbered
\* game week of that round (none when there is no such round or game week).
C2_ActivateSeasonCascade ==
  (res.op = "setActiveSeason" /\ res.err = "OK") =>
    LET S == res.arg[1]
        lowestRounds ==
          {r \in DOMAIN rounds :
             /\ rounds[r].seasonId = S
             /\ \A q \in DOMAIN rounds :
                  rounds[q].seasonId = S => rounds[r].number <= rounds[q].number}
        lowestGameWeeks ==
          {g \in DOMAIN gameWeeks :
             /\ gameWeeks[g].roundId \in lowestRounds
             /\ \A q \in DOMAIN gameWeeks :
                  gameWeeks[q].roundId = gameWeeks[g].roundId
                    => gameWeeks[g].number <= gameWeeks[q].number}
    IN /\ ActiveSeasons = {S}
       /\ ActiveRounds = lowestRounds
       /\ ActiveGameWeeks = lowestGameWeeks
       /\ Cardinality(lowestRounds) <= 1
       /\ Cardinality(lowestGameWeeks) <= 1

\* Reached: S was activated, it has two rounds, the lower-numbered one was
\* created second, and that round has a game week.
C2_Witness ==
  /\ res.op = "setActiveSeason" /\ res.err = "OK"
  /\ \E r1, r2 \in DOMAIN rounds :
       /\ r1 < r2
       /\ rounds[r1].seasonId = res.arg[1] /\ rounds[r2].seasonId = res.arg[1]
       /\ rounds[r2].number < rounds[r1].number
       /\ \E g \in DOMAIN gameWeeks : gameWeeks[g].roundId = r2
       /\ ActiveRounds = {r2}
  /\ ActiveGameWeeks # {}

\* A request is inside its transaction.
InTx(p) == proc[p].op \in {"setActiveSeason", "setActiveRound", "setActiveGameWeek"}

\* C3: a reader (getActive*, getAll*: one select on the committed tables) never
\* sees part of an activation: the committed isActive flags change only in the
\* step that commits a transaction, and then by all of its writes at once.
C3_ActivationAtomicForReaders ==
  [][ (Hier' # Hier) =>
        \E p \in Procs :
          /\ InTx(p)
          /\ proc'[p] = Idle
          /\ res' = Res(proc[p].op, "OK", <<proc[p].id>>, NoCtx, <<>>)
          /\ Hier' = TxView([tx |-> proc[p].tx, h |-> Hier]) ]_vars

\* Reached: setActiveGameWeek has deactivated every game week inside its
\* transaction and not yet activated the new one, while a reader of the game
\* weeks still sees the game week that was active before.
C3_Witness ==
  \E p \in Procs :
    /\ proc[p].op = "setActiveGameWeek" /\ proc[p].pc = 2
    /\ \A g \in DOMAIN gameWeeks : g \in Locked(proc[p].tx, "gameWeeks")
                                   /\ ~proc[p].tx.w.gameWeeks[g]
    /\ ActiveGameWeeks # {}
    /\ res.op = "getAll" /\ res.arg = <<"gameWeeks">>
    /\ \E g \in DOMAIN res.out : res.out[g]

\* C4: however the statements of concurrent setActiveSeason, setActiveRound and
\* setActiveGameWeek transactions interleave, no committed state has two active
\* seasons, two active rounds or two active game weeks.
C4_ConcurrentActivationsSingleActive ==
  /\ \A a, b \in ActiveSeasons : a = b
  /\ \A a, b \in ActiveRounds : a = b
  /\ \A a, b \in ActiveGameWeeks : a = b

\* Reached: two activations are in their transactions at once, one of them
\* waiting for a row the other has locked, after an earlier one has committed.
C4_Witness ==
  \E p, q \in Procs :
    /\ p # q /\ InTx(p) /\ InTx(q)
    /\ proc[p].tx.w # EmptyWrites
    /\ ~LocksFree(q, Stmt(proc[q].op, proc[q].pc,
                          [tx |-> proc[q].tx, h |-> Hier], proc[q].id))
    /\ ActiveSeasons # {} /\ ActiveRounds # {} /\ ActiveGameWeeks # {}

\* The active rounds of season s and the active game weeks of round r.
ActiveRoundsOf(s) == {r \in ActiveRounds : rounds[r].seasonId = s}
ActiveGameWeeksOf(r) == {g \in ActiveGameWeeks : gameWeeks[g].roundId = r}

\* C5: getCurrentContext, getAvailableTeams and submitPick resolve the context
\* alike: each fails with NoActiveSeason when no season is active, otherwise
\* with NoActiveRound when the active season has no active round, otherwise
\* with NoActiveGameWeek when that round has no active game week; and a
\* request that fails in one of these ways writes no pick.
C5_ContextResolutionOrder ==
  [][ res'.op \in {"getCurrentContext", "getAvailableTeams", "submitPick"} =>
        LET e == res'.err
            c == res'.ctx
            failed(err) == e = err /\ picks' = picks
        IN IF ActiveSeasons = {} THEN failed("NoActiveSeason")
           ELSE /\ c.season \in ActiveSeasons
                /\ IF ActiveRoundsOf(c.season) = {} THEN failed("NoActiveRound")
                   ELSE /\ c.round \in ActiveRoundsOf(c.season)
                        /\ IF ActiveGameWeeksOf(c.round) = {}
                           THEN failed("NoActiveGameWeek")
                           ELSE /\ c.gameWeek \in ActiveGameWeeksOf(c.round)
                                /\ e \notin {"NoActiveSeason", "NoActiveRound",
                                             "NoActiveGameWeek"} ]_vars

\* Reached: with a pick in the store, submitPick fails with NoActiveGameWeek
\* although a game week is active, in a round other than the active one.
C5_Witness ==
  /\ res.op = "submitPick" /\ res.err = "NoActiveGameWeek"
  /\ ActiveGameWeeks # {}
  /\ picks # EmptyBag

\* User u has a pick for game week g.
HasPick(u, g) == \E q \in BagToSet(picks) : q.userId = u /\ q.gameWeekId = g

\* The step is a submitPick by a user who has a pick for the game week the
\* request resolves to.
SecondSubmit ==
  /\ res'.op = "submitPick"
  /\ res'.ctx.gameWeek # Null
  /\ HasPick(res'.arg[1], res'.ctx.gameWeek)

\* C7 as stated: when U has a pick for the active game week, a further
\* submitPick by U, for the same or any other team, fails with DuplicatePick
\* and leaves the pick store unchanged.
C7_SecondSubmitIsDuplicatePick ==
  [][ SecondSubmit => res'.err = "DuplicatePick" /\ picks' = picks ]_vars

\* C7, amended: when U has a pick for the active game week, a further
\* submitPick by U fails and leaves the pick store unchanged; it fails with
\* DuplicatePick when the team plays in the fixture the request names, and with
\* the fixture's own error (fixture not found, team not in the fixture) when it
\* does not, that test coming before the insert.
C7_SecondSubmitFails ==
  [][ SecondSubmit =>
        LET t == res'.arg[2]
            f == res'.arg[3]
        IN /\ picks' = picks
           /\ IF f \notin DOMAIN fixtures THEN res'.err = "NotFound"
              ELSE IF t \notin {fixtures[f].home_team_id, fixtures[f].away_team_id}
                   THEN res'.err = "TeamNotInCurrentFixtures"
              ELSE res'.err = "DuplicatePick" ]_vars

\* Reached: U, holding a pick for the active game week, has submitted another
\* team of a fixture and got DuplicatePick.
C7_Witness ==
  /\ res.op = "submitPick" /\ res.err = "DuplicatePick"
  /\ \E q \in BagToSet(picks) :
       /\ q.userId = res.arg[1]
       /\ q.gameWeekId = res.ctx.gameWeek
       /\ q.teamId # res.arg[2]

\* C8: submitPick(U, T) fails with TeamNotInCurrentFixtures whenever no fixture
\* assigned to the active game week has T as home or away team; so a pick is
\* never created against a fixture that is unassigned or assigned to another
\* game week than the active one.
C8_PickOnlyInActiveGameWeekFixtures ==
  (res.op = "submitPick" /\ res.ctx.gameWeek # Null) =>
    LET T == res.arg[2]
        playsInActiveGameWeek ==
          \E f \in DOMAIN fixtures :
            /\ fixtures[f].game_week_id = res.ctx.gameWeek
            /\ T \in {fixtures[f].home_team_id, fixtures[f].away_team_id}
    IN /\ ~playsInActiveGameWeek => res.err = "TeamNotInCurrentFixtures"
       /\ res.err = "OK" => fixtures[res.arg[3]].game_week_id = res.ctx.gameWeek

\* C9: getAvailableTeams(U) returns exactly the teams that are home or away
\* team of a fixture of the current game week, none twice, and marks a team
\* available iff U has no pick of that team in a game week of the current round.
C9_AvailableTeamsExact ==
  (res.op = "getAvailableTeams" /\ res.err = "OK") =>
    LET U == res.arg[1]
        out == res.out
        playing ==
          {t \in DOMAIN teams :
             \E f \in DOMAIN fixtures :
               /\ fixtures[f].game_week_id = res.ctx.gameWeek
               /\ t \in {fixtures[f].home_team_id, fixtures[f].away_team_id}}
        pickedInRound(t) ==
          \E q \in BagToSet(picks) :
            /\ q.userId = U /\ q.teamId = t
            /\ q.gameWeekId \in DOMAIN gameWeeks
            /\ gameWeeks[q.gameWeekId].roundId = res.ctx.round
    IN /\ {out[i].id : i \in DOMAIN out} = playing
       /\ Len(out) = Cardinality(playing)
       /\ \A i \in DOMAIN out : out[i].isAvailable <=> ~pickedInRound(out[i].id)

\* Reached: the list holds a team that U picked in another game week of the
\* round, marked unavailable, and a team that only another user picked in the
\* round, marked available.
C9_Witness ==
  /\ res.op = "getAvailableTeams" /\ res.err = "OK"
  /\ \E i, j \in DOMAIN res.out :
       /\ ~res.out[i].isAvailable
       /\ \E q \in BagToSet(picks) :
            /\ q.userId = res.arg[1] /\ q.teamId = res.out[i].id
            /\ q.gameWeekId # res.ctx.gameWeek
       /\ res.out[j].isAvailable
       /\ \E q \in BagToSet(picks) :
            /\ q.userId # res.arg[1] /\ q.teamId = res.out[j].id
            /\ gameWeeks[q.gameWeekId].roundId = res.ctx.round

\* C10: the list of getAvailableTeams has every available team before every
\* unavailable one, and within each group the teams in ascending order of name.
C10_AvailableFirstThenByName ==
  (res.op = "getAvailableTeams" /\ res.err = "OK") =>
    \A i, j \in DOMAIN res.out :
      i < j =>
        /\ res.out[j].isAvailable => res.out[i].isAvailable
        /\ res.out[i].isAvailable = res.out[j].isAvailable
             => res.out[i].name < res.out[j].name

\* Reached: a list of all three teams in which an unavailable team has a name
\* that sorts before an available team's, and which is not in table order.
C10_Witness ==
  /\ res.op = "getAvailableTeams" /\ res.err = "OK"
  /\ Len(res.out) = 3
  /\ \E i, j \in DOMAIN res.out :
       /\ i < j
       /\ res.out[i].isAvailable /\ ~res.out[j].isAvailable
       /\ res.out[j].name < res.out[i].name
  /\ \E i, j \in DOMAIN res.out : i < j /\ res.out[i].id > res.out[j].id

\* C6: the store never holds two picks with the same (userId, gameWeekId); of
\* concurrent submitPick requests of one user for one game week, the insert
\* that comes first adds the pick and every later one is rejected.
C6_OnePickPerUserAndGameWeek ==
  [][ /\ \A q \in BagToSet(picks') :
           /\ CopiesIn(q, picks') = 1
           /\ \A o \in BagToSet(picks') :
                (o.userId = q.userId /\ o.gameWeekId = q.gameWeekId) => o = q
      /\ \A p \in Procs :
           (proc[p].op = "submitPick" /\ proc'[p] # proc[p]) =>
             LET u == proc[p].id[1]
                 g == proc[p].ctx.gameWeek
             IN IF HasPick(u, g)
                THEN picks' = picks /\ res'.err = "DuplicatePick"
                ELSE /\ res'.err = "OK"
                     /\ BagCardinality(picks') = BagCardinality(picks) + 1
                     /\ \E q \in BagToSet(picks') :
                          q.userId = u /\ q.gameWeekId = g /\ q.teamId = proc[p].id[2]
    ]_vars

\* Reached: two requests of one user, for different teams, have both resolved
\* the same game week and passed their checks while the user has no pick for
\* it, and each is about to insert.
C6_Witness ==
  \E p, q \in Procs :
    /\ p # q
    /\ proc[p].op = "submitPick" /\ proc[q].op = "submitPick"
    /\ proc[p].id[1] = proc[q].id[1]
    /\ proc[p].id[2] # proc[q].id[2]
    /\ proc[p].ctx.gameWeek = proc[q].ctx.gameWeek
    /\ ~HasPick(proc[p].id[1], proc[p].ctx.gameWeek)
    /\ picks # EmptyBag

\* The ids with isActive set in a table.
ActiveIn(tbl) == {i \in DOMAIN tbl : tbl[i].isActive}

\* C11: from every state, activateGameWeek(G) for an existing G leaves exactly
\* G active among all game weeks and leaves the isActive flag of every season
\* and every round as it was.
C11_ActivateGameWeekFrame ==
  \A G \in DOMAIN gameWeeks :
    LET a == After("setActiveGameWeek", G)
    IN /\ a.err = "OK"
       /\ ActiveIn(a.h.gameWeeks) = {G}
       /\ a.h.seasons = seasons
       /\ a.h.rounds = rounds

\* Reached: activateGameWeek(G) has succeeded where another game week exists,
\* G's round is not active and another round is.
C11_Witness ==
  /\ res.op = "setActiveGameWeek" /\ res.err = "OK"
  /\ Len(gameWeeks) = 2
  /\ ActiveGameWeeks = {res.arg[1]}
  /\ gameWeeks[res.arg[1]].roundId \notin ActiveRounds
  /\ ActiveRounds # {}

\* C12: from every state, activateRound(R) for an existing R leaves exactly R
\* active among all rounds, exactly the lowest-numbered game week of R active
\* among all game weeks (none when R has no game week), and every season's
\* isActive flag as it was.
C12_ActivateRoundCascade ==
  \A R \in DOMAIN rounds :
    LET a == After("setActiveRound", R)
        lowest ==
          {g \in DOMAIN gameWeeks :
             /\ gameWeeks[g].roundId = R
             /\ \A q \in DOMAIN gameWeeks :
                  gameWeeks[q].roundId = R => gameWeeks[g].number <= gameWeeks[q].number}
    IN /\ a.err = "OK"
       /\ ActiveIn(a.h.rounds) = {R}
       /\ ActiveIn(a.h.gameWeeks) = lowest
       /\ Cardinality(lowest) <= 1
       /\ a.h.seasons = seasons

\* Reached: activateRound(R) has succeeded where R has two game weeks, the
\* lower-numbered one created second and now the only active one, and R's
\* season is not active.
C12_Witness ==
  /\ res.op = "setActiveRound" /\ res.err = "OK"
  /\ \E g1, g2 \in DOMAIN gameWeeks :
       /\ g1 < g2
       /\ gameWeeks[g1].roundId = res.arg[1] /\ gameWeeks[g2].roundId = res.arg[1]
       /\ gameWeeks[g2].number < gameWeeks[g1].number
       /\ ActiveGameWeeks = {g2}
  /\ rounds[res.arg[1]].seasonId \notin ActiveSeasons

\* C13: activateSeason, activateRound and activateGameWeek called with an id
\* that names no entity of that level fail with NotFound and change no
\* isActive flag at any level.
C13_ActivateUnknownIsNotFound ==
  /\ \A id \in SeasonIds \ DOMAIN seasons :
       After("setActiveSeason", id) = [err |-> "NotFound", h |-> Hier]
  /\ \A id \in RoundIds \ DOMAIN rounds :
       After("setActiveRound", id) = [err |-> "NotFound", h |-> Hier]
  /\ \A id \in GameWeekIds \ DOMAIN gameWeeks :
       After("setActiveGameWeek", id) = [err |-> "NotFound", h |-> Hier]

\* Reached: activateSeason has failed with NotFound in a store that has an
\* active season, an active round and an active game week.
C13_Witness ==
  /\ res.op = "setActiveSeason" /\ res.err = "NotFound"
  /\ res.arg[1] \notin DOMAIN seasons
  /\ ActiveSeasons # {} /\ ActiveRounds # {} /\ ActiveGameWeeks # {}

\* C14: activateGameWeek is idempotent: from every state, the flags of all
\* three levels after two calls of activateGameWeek(G) in succession are those
\* after one call.
C14_ActivateGameWeekIdempotent ==
  \A G \in GameWeekIds :
    LET once == After("setActiveGameWeek", G).h
        twice == IF Exists("setActiveGameWeek", once, G)
                 THEN RunTx("setActiveGameWeek", 1, [tx |-> NewTx, h |-> once], G).h
                 ELSE once
    IN twice = once

\* Reached: activateGameWeek(G) has succeeded from a state in which G was one
\* of two active game weeks, or follows one: two game weeks exist, G alone is
\* active and a round is active.
C14_Witness ==
  /\ res.op = "setActiveGameWeek" /\ res.err = "OK"
  /\ Len(gameWeeks) = 2
  /\ ActiveGameWeeks = {res.arg[1]}
  /\ ActiveSeasons # {}

\* C15: when a store failure ends an activation after any proper prefix of its
\* writes, the operation fails and the isActive flags of all seasons, rounds
\* and game weeks are what they were before the call.
C15_FailedActivationRollsBack ==
  [][ (res'.err = "StorageFailure"
       /\ res'.op \in {"setActiveSeason", "setActiveRound", "setActiveGameWeek"})
        => Hier' = Hier ]_vars

\* Reached: an activation has failed in a store where a season, a round and a
\* game week are active and the failed call named a season other than the
\* active one.
C15_Witness ==
  /\ res.op = "setActiveSeason" /\ res.err = "StorageFailure"
  /\ ActiveSeasons # {} /\ res.arg[1] \notin ActiveSeasons
  /\ ActiveRounds # {} /\ ActiveGameWeeks # {}

\* C16: in every reachable state, an active round's season is active.
C16_ActiveRoundHasActiveSeason ==
  \A r \in ActiveRounds : rounds[r].seasonId \in ActiveSeasons

\* C17: in every reachable state, an active game week's round is active.
C17_ActiveGameWeekHasActiveRound ==
  \A g \in ActiveGameWeeks : gameWeeks[g].roundId \in ActiveRounds

\* The pick that a successful submitPick has just stored.
StoredPick ==
  CHOOSE q \in BagToSet(picks) :
    q.userId = res.arg[1] /\ q.gameWeekId = res.ctx.gameWeek

\* C18: the pick stored by a successful submitPick has gameWeekId, roundId and
\* seasonId equal to the game week, round and season stored on the fixture it
\* references.
C18_PickIdsFromFixture ==
  (res.op = "submitPick" /\ res.err = "OK") =>
    LET fixture == fixtures[StoredPick.fixtureId]
    IN /\ StoredPick.gameWeekId = fixture.game_week_id
       /\ StoredPick.roundId = fixture.round_id
       /\ StoredPick.seasonId = fixture.season_id

\* C19: after a successful submitPick(U, T) on fixture F, reading U's picks
\* returns a pick with teamId T, fixtureId F, isHomeTeam true exactly when T is
\* F's home team (false exactly when T is F's away team) and isCorrect null.
C19_PickRoundTrip ==
  (res.op = "submitPick" /\ res.err = "OK") =>
    LET T == res.arg[2]
        F == res.arg[3]
    IN \E q \in getPicksByUser(res.arg[1]) :
         /\ q.gameWeekId = res.ctx.gameWeek
         /\ q.teamId = T
         /\ q.fixtureId = F
         /\ q.isHomeTeam <=> fixtures[F].home_team_id = T
         /\ ~q.isHomeTeam <=> fixtures[F].away_team_id = T
         /\ q.isCorrect = "null"

\* Reached: a pick of a fixture's away team has been stored, by a user who
\* also holds a pick of a home team.
C19_Witness ==
  /\ res.op = "submitPick" /\ res.err = "OK"
  /\ fixtures[res.arg[3]].away_team_id = res.arg[2]
  /\ \E q \in getPicksByUser(res.arg[1]) : q.isHomeTeam

\* C20: submitPick makes no test of the round's history: a submitPick naming
\* a fixture and a team of that fixture fails only when the user already has
\* a pick for the active game week, whatever the user picked in other game
\* weeks of the round; so two picks of one user in one round can have the
\* same team.
C20_NoRoundHistoryCheck ==
  (/\ res.op = "submitPick"
   /\ res.ctx.gameWeek # Null
   /\ res.arg[3] \in DOMAIN fixtures
   /\ res.arg[2] \in {fixtures[res.arg[3]].home_team_id,
                      fixtures[res.arg[3]].away_team_id}) =>
    /\ res.err \in {"OK", "DuplicatePick"}
    /\ res.err = "DuplicatePick" =>
         \E q \in BagToSet(picks) :
           q.userId = res.arg[1] /\ q.gameWeekId = res.ctx.gameWeek

\* Reached: U, holding a pick of team T in game week g1 of round R, has
\* picked T again in game week g2 of R through a fixture of g2.
C20_Witness ==
  /\ res.op = "submitPick" /\ res.err = "OK"
  /\ fixtures[res.arg[3]].game_week_id = res.ctx.gameWeek
  /\ \E q1, q2 \in BagToSet(picks) :
       /\ q1.userId = res.arg[1] /\ q2.userId = res.arg[1]
       /\ q1.teamId = res.arg[2] /\ q2.teamId = res.arg[2]
       /\ q1.roundId = q2.roundId
       /\ q1.gameWeekId # q2.gameWeekId
       /\ q2.gameWeekId = res.ctx.gameWeek
       /\ fixtures[q1.fixtureId].game_week_id = q1.gameWeekId

\* C21: after activateRound(R) for a round R of a season other than the
\* active one, R is active but getCurrentContext does not return it: while
\* that season stays the active one getCurrentContext fails with
\* NoActiveRound, and it never returns a round whose seasonId is not the id of
\* the season it returns.
C21_OrphanRoundNotReturned ==
  res.op = "getCurrentContext" =>
    /\ res.err = "OK" => rounds[res.ctx.round].seasonId = res.ctx.season
    /\ (/\ ActiveSeasons # {}
        /\ ActiveRounds # {}
        /\ \A r \in ActiveRounds : rounds[r].seasonId \notin ActiveSeasons)
         => res.err = "NoActiveRound" /\ res.ctx.round = Null

\* Reached: a season is active, the only active round belongs to the other
\* season and has an active game week, and getCurrentContext has answered
\* NoActiveRound.
C21_Witness ==
  /\ res.op = "getCurrentContext" /\ res.err = "NoActiveRound"
  /\ \E s \in ActiveSeasons, r \in ActiveRounds :
       /\ rounds[r].seasonId # s
       /\ \E g \in ActiveGameWeeks : gameWeeks[g].roundId = r

\* The payloads createOrUpdateFixture is tried with: any assignment values,
\* for an external id the store has or has not.
UpsertPayloads ==
  [external_id : {11, 12, 13}, game_week_id : {Null} \cup GameWeekIds,
   round_id : {Null} \cup RoundIds, season_id : SeasonIds,
   home_team_id : {1, 3}, away_team_id : {2},
   status : {"SCHEDULED", "FINISHED"}, selected : BOOLEAN,
   external_season_id : {Null, 2024}]

\* What a re-sync of an existing external id must leave alone whatever the
\* payload: no row is added, every other row is untouched, and in the row
\* itself every column outside `free` is as it was.
ResyncKeeps(free) ==
  \A fixture \in UpsertPayloads :
    (\E f \in DOMAIN fixtures : fixtures[f].external_id = fixture.external_id) =>
      LET after == createOrUpdateFixture(fixtures, fixture)
      IN /\ DOMAIN after = DOMAIN fixtures
         /\ \A f \in DOMAIN fixtures :
              IF fixtures[f].external_id = fixture.external_id
              THEN \A col \in DOMAIN fixtures[f] \ free :
                     after[f][col] = fixtures[f][col]
              ELSE after[f] = fixtures[f]

C22_PicksAppendOnly ==
  [][ /\ res'.op \in {"setActiveSeason", "setActiveRound", "setActiveGameWeek",
                      "getCurrentContext", "getAvailableTeams",
                      "syncFixtures", "assignFixtures"}
        => picks' = picks
      /\ res'.op = "submitPick" /\ res'.err # "OK" => picks' = picks
      /\ picks' # picks
        => /\ res'.op = "submitPick" /\ res'.err = "OK"
           /\ \E q \in BagToSet(picks') : picks' = picks (+) SetToBag({q})
      /\ res'.op = "submitPick"
        => /\ seasons' = seasons /\ rounds' = rounds /\ gameWeeks' = gameWeeks
           /\ fixtures' = fixtures ]_vars

\* Reached: the fixture sync has run over the fixtures while a pick made on
\* one of them is stored.
C22_Witness ==
  /\ res.op = "syncFixtures" /\ res.err = "OK"
  /\ \E q \in BagToSet(picks), i \in DOMAIN res.arg[1] :
       fixtures[q.fixtureId].external_id = res.arg[1][i].id

\* C24: once submitPick(U, T) has succeeded while round R was the resolved
\* round (the pick stored then carries roundId = R and is never removed), in
\* every later state in which the context resolves to R, whichever game week
\* of R is active, getAvailableTeams(U) does not report T with isAvailable.
C24_PickedTeamStaysUnavailable ==
  res.op = "getAvailableTeams" /\ res.err = "OK" =>
    \A q \in BagToSet(picks) :
      q.userId = res.arg[1] /\ q.roundId = res.ctx.round =>
        \A i \in DOMAIN res.out :
          res.out[i].id = q.teamId => ~res.out[i].isAvailable

\* Reached: the user picked a team in one game week of the round, the other
\* game week of the same round is active now, the team plays in it, and
\* getAvailableTeams lists it as not available.
C24_Witness ==
  /\ res.op = "getAvailableTeams" /\ res.err = "OK"
  /\ \E q \in BagToSet(picks), i \in DOMAIN res.out :
       /\ q.userId = res.arg[1] /\ q.roundId = res.ctx.round
       /\ q.gameWeekId # res.ctx.gameWeek
       /\ res.out[i].id = q.teamId /\ ~res.out[i].isAvailable

\* C25: availability is scoped to the resolved round: a team T that U picked
\* in a game week of another round is reported isAvailable = TRUE when T
\* plays in the active game week of the resolved round and U has no pick of T
\* in any game week of that round.
C25_AvailableAgainInOtherRound ==
  res.op = "getAvailableTeams" /\ res.err = "OK" =>
    \A i \in DOMAIN res.out :
      (~\E q \in BagToSet(picks) :
          /\ q.userId = res.arg[1] /\ q.teamId = res.out[i].id
          /\ gameWeeks[q.gameWeekId].roundId = res.ctx.round)
        => res.out[i].isAvailable

\* Reached: the user has a pick of the team in a game week of another round
\* and none in the resolved round, and getAvailableTeams lists the team as
\* available.
C25_Witness ==
  /\ res.op = "getAvailableTeams" /\ res.err = "OK"
  /\ \E q \in BagToSet(picks), i \in DOMAIN res.out :
       /\ q.userId = res.arg[1] /\ q.teamId = res.out[i].id
       /\ gameWeeks[q.gameWeekId].roundId # res.ctx.round
       /\ q.roundId # res.ctx.round
       /\ res.out[i].isAvailable

\* C29: every pick is denormalised consistently with the hierarchy: the game
\* week pick.gameWeekId has roundId = pick.roundId and the round pick.roundId
\* has seasonId = pick.seasonId; and the gameWeekId of a pick just stored is
\* the game week that was active, the one the context resolved to, at its
\* submission.
C29_PickIdsFollowHierarchy ==
  /\ \A q \in BagToSet(picks) :
       /\ q.gameWeekId \in DOMAIN gameWeeks
       /\ q.roundId \in DOMAIN rounds
       /\ gameWeeks[q.gameWeekId].roundId = q.roundId
       /\ rounds[q.roundId].seasonId = q.seasonId
  /\ res.op = "submitPick" /\ res.err = "OK" =>
       \E q \in BagToSet(picks) :
         /\ q.userId = res.arg[1] /\ q.teamId = res.arg[2]
         /\ q.fixtureId = res.arg[3]
         /\ q.gameWeekId = res.ctx.gameWeek
         /\ gameWeeks[q.gameWeekId].isActive

\* Reached: a pick has just been stored on a fixture that is assigned to a
\* game week other than the active one, or to none.
C29_Witness ==
  /\ res.op = "submitPick" /\ res.err = "OK"
  /\ fixtures[res.arg[3]].game_week_id # res.ctx.gameWeek
  /\ \E q \in BagToSet(picks) :
       q.fixtureId = res.arg[3] /\ q.gameWeekId = res.ctx.gameWeek

\* C27: whenever getCurrentContext succeeds, the triple it returns is
\* consistent with the hierarchy: the season, the round and the game week are
\* all active, the round's seasonId is the season's id and the game week's
\* roundId is the round's id; in every reachable state, those with an active
\* round or game week under an inactive parent included.
C27_ContextHierarchyConsistent ==
  res.op = "getCurrentContext" /\ res.err = "OK" =>
    /\ res.ctx.season \in DOMAIN seasons /\ seasons[res.ctx.season].isActive
    /\ res.ctx.round \in DOMAIN rounds /\ rounds[res.ctx.round].isActive
    /\ res.ctx.gameWeek \in DOMAIN gameWeeks
    /\ gameWeeks[res.ctx.gameWeek].isActive
    /\ rounds[res.ctx.round].seasonId = res.ctx.season
    /\ gameWeeks[res.ctx.gameWeek].roundId = res.ctx.round

\* Reached: getCurrentContext has succeeded in a state that also has an
\* active game week whose round is not active.
C27_Witness ==
  /\ res.op = "getCurrentContext" /\ res.err = "OK"
  /\ \E g \in DOMAIN gameWeeks :
       /\ gameWeeks[g].isActive
       /\ \A r \in DOMAIN rounds : gameWeeks[g].roundId = r => ~rounds[r].isActive

\* The stored hierarchy with every is_active flag cleared, and an activation
\* run to its commit on a hierarchy h.
ClearedFlags ==
  [seasons |-> [s \in DOMAIN seasons |-> [seasons[s] EXCEPT !.isActive = FALSE]],
   rounds |-> [r \in DOMAIN rounds |-> [rounds[r] EXCEPT !.isActive = FALSE]],
   gameWeeks |-> [g \in DOMAIN gameWeeks |->
                    [gameWeeks[g] EXCEPT !.isActive = FALSE]]]

RunOn(op, h, id) == RunTx(op, 1, [tx |-> NewTx, h |-> h], id).h

\* C28: what activateSeason(S) and activateRound(R) leave does not depend on
\* which entities were active before: on the levels each writes (all three
\* for activateSeason, rounds and game weeks for activateRound) the flags are
\* those the same activation leaves on the hierarchy with every flag cleared;
\* so both are idempotent, and activating a round again leaves no game week
\* active but a lowest-numbered one of that round.
C28_ActivationIgnoresPriorFlags ==
  /\ \A S \in DOMAIN seasons :
       LET a == After("setActiveSeason", S).h
       IN /\ a = RunOn("setActiveSeason", ClearedFlags, S)
          /\ RunOn("setActiveSeason", a, S) = a
  /\ \A R \in DOMAIN rounds :
       LET a == After("setActiveRound", R).h
           b == RunOn("setActiveRound", ClearedFlags, R)
       IN /\ a.rounds = b.rounds /\ a.gameWeeks = b.gameWeeks
          /\ a.seasons = seasons
          /\ RunOn("setActiveRound", a, R) = a
          /\ \A g \in DOMAIN gameWeeks :
               a.gameWeeks[g].isActive =>
                 /\ gameWeeks[g].roundId = R
                 /\ \A q \in DOMAIN gameWeeks :
                      gameWeeks[q].roundId = R
                        => gameWeeks[g].number <= gameWeeks[q].number

\* Reached: a round is active, its active game week is not its
\* lowest-numbered one, and activating the round again changes the game weeks.
C28_Witness ==
  \E R \in DOMAIN rounds, g, q \in DOMAIN gameWeeks :
    /\ rounds[R].isActive
    /\ gameWeeks[g].roundId = R /\ gameWeeks[q].roundId = R
    /\ gameWeeks[g].isActive /\ ~gameWeeks[q].isActive
    /\ gameWeeks[q].number < gameWeeks[g].number
    /\ res.op = "setActiveGameWeek" /\ res.err = "OK" /\ res.arg = <<g>>
    /\ After("setActiveRound", R).h.gameWeeks # gameWeeks
    /\ After("setActiveRound", R).h.gameWeeks[q].isActive

\* C26: per-user isolation.  Of two store states that differ only in picks of
\* users other than U (here: the states before and after another user's pick
\* is stored, and so any two joined by such steps), getAvailableTeams(U)
\* returns the same teams with the same isAvailable flags in both, and
\* submitPick(U, T) succeeds or fails the same way in both.
C26_OtherUsersPicksInvisible ==
  [][ picks' # picks =>
        \A U \in UserIds \ {res'.arg[1]} :
          \A c \in ResolveContext(Hier) :
            /\ c.err = "OK" =>
                 \A order \in getTeams :
                   availableTeams(U, c, order)' = availableTeams(U, c, order)
            /\ \A b \in PickRequests :
                 PickOutcome(U, b[1], b[2], c)' = PickOutcome(U, b[1], b[2], c)
    ]_vars

\* Reached: getAvailableTeams(U) lists as available a team that another user
\* has picked in the resolved round.
C26_Witness ==
  /\ res.op = "getAvailableTeams" /\ res.err = "OK"
  /\ \E q \in BagToSet(picks), i \in DOMAIN res.out :
       /\ q.userId # res.arg[1] /\ q.roundId = res.ctx.round
       /\ res.out[i].id = q.teamId /\ res.out[i].isAvailable

\* C30: getCurrentContext is a consistent snapshot under concurrency: when its
\* three reads interleave with committed activations, a triple it returns was
\* active together in some single committed state between its first and its
\* last read.
C30_ContextIsSnapshot ==
  res.op = "getCurrentContext" /\ res.err = "OK" /\ res.arg # <<>>
    => res.ctx \in res.out

====
